---- MODULE Spec2Model ----
(***************************************************************************)
(* Model of the investment-growth server (src/server/src/index.ts): the    *)
(* POST /api/calculate-compound handler with the monthly compounding walk  *)
(* of calculateCompoundInterestWithDates, and the GET /api/market-data     *)
(* handler with generateRealisticMarketData and the response cache.        *)
(*                                                                         *)
(* Representation of JavaScript numbers:                                   *)
(*   - money is an integer number of 1/10000 of a currency unit, so one    *)
(*     cent is 100 units; a product is rounded to the nearest unit where   *)
(*     the double would be rounded to the nearest representable value;     *)
(*   - an annual return is an integer number of 1/10000 (0.1640 is 1640),  *)
(*     which is also the percentage with two decimals times 100;           *)
(*   - a reported, 2-decimal figure is an integer number of cents.         *)
(* A calendar date string "YYYY-MM-DD" is the record [y, m, d].            *)
(***************************************************************************)
EXTENDS Integers, Sequences, FiniteSets, TLC

VARIABLES
    tz,                  \* UTC offset of the server's local time, in hours
    today,               \* the current UTC calendar date (new Date())
    workload,            \* which set of requests the clients send
    cache,               \* NodeCache contents: cache key -> market-data response
                         \* (v) and the day it was stored (t)
    pc,                  \* "idle" | "walk" | "responded"
    req,                 \* the request being handled
    response,            \* the response written for req
    start,               \* local calendar date of `start` after setHours(12,...)
    end,                 \* local calendar date of `end` after setHours(12,...)
    marketIndex,         \* the engine's marketIndex argument
    sortedTransactions,
    currentAmount,
    currentYear,
    currentMonth,        \* 0..11, as Date.getMonth()
    totalMonths,
    totalContributions,
    totalDeposits,
    totalWithdrawals,
    transactionIndex,    \* 0-based index into sortedTransactions
    monthlyData,
    yearlyData,
    log,                 \* completed calls, <<request, response>>, oldest first
    appTransactions,     \* the client's state `transactions`
    primaryIndex,
    calculationResult,
    selectedTransactionIds,
    isSelectMode,
    transactionTypeFilter,
    calculationCache,    \* calculationCacheRef.current: [key, result], in the
                         \* order of insertion
    pending,             \* bodies of the calculation requests in flight
    loading,
    nextId               \* stands for Date.now(): the id of the next transaction

serverVars == <<tz, today, workload, cache, pc, req, response, start, end, marketIndex,
          sortedTransactions, currentAmount, currentYear, currentMonth,
          totalMonths, totalContributions, totalDeposits, totalWithdrawals,
          transactionIndex, monthlyData, yearlyData, log>>

clientVars == <<appTransactions, primaryIndex, calculationResult,
                selectedTransactionIds, isSelectMode, transactionTypeFilter,
                calculationCache, pending, loading, nextId>>

vars == <<serverVars, clientVars>>

walkVars == <<start, end, marketIndex, sortedTransactions, currentAmount,
              currentYear, currentMonth, totalMonths, totalContributions,
              totalDeposits, totalWithdrawals, transactionIndex, monthlyData,
              yearlyData>>

----------------------------------------------------------------------------
(* Bounds of the explored inputs *)

MaxTx == 2        \* longest transaction list of a calculation request
MaxCalls == 3     \* requests handled one after the other in SpecCalls
MaxDays == 2      \* midnights that pass while the server runs in SpecCache
MaxAdds == 2      \* transactions the user adds or imports in SpecClient
MaxInFlight == 2  \* calculation requests in flight at a time in SpecClient
MaxFill == 52     \* transactions the user adds or imports in SpecFill

\* the calculation cache of the client keeps the last 50 calculations
CacheLimit == 50

----------------------------------------------------------------------------
(* JavaScript values *)

Abs(x) == IF x < 0 THEN -x ELSE x
Min(a, b) == IF a < b THEN a ELSE b
Max(a, b) == IF a > b THEN a ELSE b

\* a * b / d rounded to the nearest integer, computed without leaving 32 bits
MulDivNearest(a, b, d) ==
    LET aa == Abs(a)
        bb == Abs(b)
        v  == (aa \div d) * bb + ((aa % d) * bb + d \div 2) \div d
    IN  IF (a < 0) = (b < 0) THEN v ELSE -v

\* Round2 with Math.floor in the place of Math.round
Round2_Floor(x) == x \div 100

\* Math.round(x * 100) / 100 of a money value, in cents; Math.round is
\* floor(x + 0.5)
Round2(x) == (x + 50) \div 100

\* Math.round((n / d) * 100 * 100) / 100 for d > 0: a percentage with two
\* decimals, times 100
RECURSIVE RatioDigits(_, _, _, _)
RatioDigits(q, r, d, k) ==
    IF k = 0 THEN (IF 2 * r >= d THEN q + 1 ELSE q)
    ELSE RatioDigits(q * 10 + (r * 10) \div d, (r * 10) % d, d, k - 1)

RoundPercent(n, d) == RatioDigits(n \div d, n % d, d, 4)

NaN == [nan |-> TRUE, value |-> 0]
Num(v) == [nan |-> FALSE, value |-> v]

----------------------------------------------------------------------------
(* Calendar dates *)

Date(y, m, d) == [y |-> y, m |-> m, d |-> d]
NoDate == Date(0, 0, 0)

IsLeap(y) == (y % 4 = 0 /\ y % 100 # 0) \/ y % 400 = 0

DaysInMonth(y, m) ==
    IF m = 2 THEN (IF IsLeap(y) THEN 29 ELSE 28)
    ELSE IF m \in {4, 6, 9, 11} THEN 30 ELSE 31

PrevDay(dt) ==
    IF dt.d > 1 THEN Date(dt.y, dt.m, dt.d - 1)
    ELSE IF dt.m > 1 THEN Date(dt.y, dt.m - 1, DaysInMonth(dt.y, dt.m - 1))
    ELSE Date(dt.y - 1, 12, 31)

\* a.getTime() - b.getTime() < 0 for two date strings (both UTC midnight)
DateBefore(a, b) ==
    \/ a.y < b.y
    \/ a.y = b.y /\ a.m < b.m
    \/ a.y = b.y /\ a.m = b.m /\ a.d < b.d

\* new Date("YYYY-MM-DD") is UTC midnight of that day; its local calendar
\* date (getFullYear, getMonth, getDate) in a zone `offset` hours from UTC,
\* which setHours(12, 0, 0, 0) keeps
LocalDate(dt, offset) == IF offset < 0 THEN PrevDay(dt) ELSE dt

NextDay(dt) ==
    IF dt.d < DaysInMonth(dt.y, dt.m) THEN Date(dt.y, dt.m, dt.d + 1)
    ELSE IF dt.m < 12 THEN Date(dt.y, dt.m + 1, 1)
    ELSE Date(dt.y + 1, 1, 1)

\* toISOString().split('T')[0] of local noon of the local date dt: the UTC
\* hour is 12 - offset
NoonToISODate(dt, offset) ==
    IF 12 - offset < 0 THEN PrevDay(dt)
    ELSE IF 12 - offset >= 24 THEN NextDay(dt)
    ELSE dt

\* new Date(year, month, 1).toISOString().split('T')[0]: local midnight of
\* the first of the month (month 0..11), as a UTC date
FirstOfMonthToISODate(year, month, offset) ==
    IF offset > 0 THEN PrevDay(Date(year, month + 1, 1))
    ELSE Date(year, month + 1, 1)

----------------------------------------------------------------------------
(* Static tables *)

\* MARKET_INDICES: name and averageReturn of the six indices (the
\* historicalData rows of MARKET_INDICES are read only by /api/sp500-data)
MARKET_INDICES ==
    [index \in {"sp500", "nasdaq", "dow", "russell2000", "ftse100", "nikkei225"} |->
        IF index = "sp500" THEN [name |-> "S&P 500", averageReturn |-> 1000]
        ELSE IF index = "nasdaq" THEN [name |-> "NASDAQ", averageReturn |-> 1150]
        ELSE IF index = "dow" THEN [name |-> "Dow Jones", averageReturn |-> 950]
        ELSE IF index = "russell2000" THEN [name |-> "Russell 2000", averageReturn |-> 920]
        ELSE IF index = "ftse100" THEN [name |-> "FTSE 100", averageReturn |-> 750]
        ELSE [name |-> "Nikkei 225", averageReturn |-> 850]
    ]

\* Property names every object literal inherits from Object.prototype:
\* obj[key] is a truthy value for them although obj has no such own key
ObjectPrototypeKeys ==
    {"constructor", "toString", "valueOf", "hasOwnProperty", "__proto__"}

\* !!MARKET_INDICES[index]
HasMarketIndex(index) ==
    index \in DOMAIN MARKET_INDICES \/ index \in ObjectPrototypeKeys

\* first year of the rows of the return tables
FirstTableYear == 1990

\* historicalReturns of generateRealisticMarketData, row[year - 1989]
historicalReturns ==
    [index \in {"sp500", "dow", "nasdaq", "russell2000", "ftse100", "nikkei225"} |->
        IF index = "sp500" THEN
          <<310, 3047, 762, 1008, 132,
            3758, 2296, 3336, 2858, 2104,
            -910, -1189, -2210, 2868, 1088,
            491, 1579, 549, -3700, 2646,
            1506, 211, 1600, 3239, 1369,
            138, 1196, 2183, -438, 3157,
            1640, 2689, -1954, 2411, 1200>>
        ELSE IF index = "dow" THEN
          <<404, 2014, 421, 1372, 213,
            3336, 2615, 2275, 1611, 2725,
            -618, -715, -1693, 2514, 317,
            -61, 1606, 626, -3394, 1876,
            1102, 554, 726, 2654, 751,
            -234, 1342, 2517, -587, 2234,
            725, 1885, -856, 1397, 950>>
        ELSE IF index = "nasdaq" THEN
          <<-1746, 5648, 1561, 1456, -318,
            3963, 2267, 2144, 3969, 8550,
            -3910, -2102, -3155, 5015, 885,
            135, 956, 975, -4018, 4338,
            1694, -180, 1574, 3848, 1351,
            559, 739, 2836, -356, 3556,
            4391, 2103, -3256, 4381, 1150>>
        ELSE IF index = "russell2000" THEN
          <<-1949, 4621, 1835, 2109, -185,
            2875, 1643, 2236, -251, 2123,
            -303, 249, -2044, 4741, 1825,
            484, 1837, -157, -3349, 2746,
            2688, -412, 1609, 3870, 489,
            -441, 2123, 1449, -1151, 2517,
            1994, 1462, -2044, 1665, 920>>
        ELSE IF index = "ftse100" THEN
          <<-935, 1634, 1985, 2834, -954,
            2034, 1185, 2485, 1434, 1785,
            -1034, -1385, -2485, 1385, 785,
            1634, 1034, 385, -3134, 2234,
            934, -585, 585, 1434, -234,
            -485, 1434, 734, -1234, 1234,
            -1434, 1434, 34, 384, 750>>
        ELSE \* nikkei225
          <<-3834, 434, -2634, 334, 1334,
            -134, -334, -2134, -934, 3634,
            -2734, -2334, -1834, 2434, 734,
            4034, 634, -1134, -4234, 1934,
            -334, -1734, 2284, 5684, -834,
            934, -234, 1934, -1234, 1834,
            1634, 434, -934, 2834, 950>>
    ]

\* allHistoricalReturns of calculateCompoundInterestWithDates, row[year - 1989]
allHistoricalReturns ==
    [index \in {"sp500", "dowjones", "nasdaq", "russell2000"} |->
        IF index = "sp500" THEN
          <<310, 3047, 762, 1008, 132,
            3758, 2296, 3336, 2858, 2104,
            -910, -1189, -2210, 2868, 1088,
            491, 1579, 549, -3700, 2646,
            1506, 211, 1600, 3239, 1369,
            138, 1196, 2183, -438, 3157,
            1640, 2689, -1954, 2411, 1200>>
        ELSE IF index = "dowjones" THEN
          <<404, 2014, 421, 1372, 213,
            3336, 2615, 2275, 1611, 2725,
            -618, -715, -1693, 2514, 317,
            -61, 1606, 626, -3394, 1876,
            1102, 554, 726, 2654, 751,
            -234, 1342, 2517, -587, 2234,
            725, 1885, -856, 1397, 950>>
        ELSE IF index = "nasdaq" THEN
          <<-1746, 5648, 1561, 1456, -318,
            3963, 2267, 2144, 3969, 8550,
            -3910, -2102, -3155, 5015, 885,
            135, 956, 975, -4018, 4338,
            1694, -180, 1574, 3848, 1351,
            559, 739, 2836, -356, 3556,
            4391, 2103, -3256, 4381, 1150>>
        ELSE \* russell2000
          <<-1949, 4621, 1835, 2109, -185,
            2875, 1643, 2236, -251, 2123,
            -303, 249, -2044, 4741, 1825,
            484, 1837, -157, -3349, 2746,
            2688, -412, 1609, 3870, 489,
            -441, 2123, 1449, -1151, 2517,
            1994, 1462, -2044, 1665, 920>>
    ]

\* row[year] of a table row, 0 standing for undefined (both are falsy)
RowLookup(row, year) ==
    IF year - (FirstTableYear - 1) \in DOMAIN row
    THEN row[year - (FirstTableYear - 1)] ELSE 0

\* Object.keys(row): the years of a table row
RowYears(row) == {FirstTableYear - 1 + i : i \in DOMAIN row}

----------------------------------------------------------------------------
(* calculateCompoundInterestWithDates *)

\* allHistoricalReturns[marketIndex] || allHistoricalReturns.sp500; for a
\* name inherited from Object.prototype the value is truthy and has no year
selectedReturns(index) ==
    IF index \in DOMAIN allHistoricalReturns THEN allHistoricalReturns[index]
    ELSE IF index \in ObjectPrototypeKeys THEN << >>
    ELSE allHistoricalReturns["sp500"]

\* MARKET_INDICES[marketIndex]?.averageReturn || MARKET_INDICES.sp500.averageReturn
defaultReturn(index) ==
    IF index \in DOMAIN MARKET_INDICES /\ MARKET_INDICES[index].averageReturn # 0
    THEN MARKET_INDICES[index].averageReturn
    ELSE MARKET_INDICES["sp500"].averageReturn

\* historicalReturns[currentYear] || defaultReturn
annualReturn(index, year) ==
    IF RowLookup(selectedReturns(index), year) # 0
    THEN RowLookup(selectedReturns(index), year)
    ELSE defaultReturn(index)

\* InsertByDate that puts t in front of the elements of its own date
RECURSIVE InsertByDate_Unstable(_, _)
InsertByDate_Unstable(sorted, t) ==
    IF sorted = << >> THEN <<t>>
    ELSE IF ~DateBefore(sorted[Len(sorted)].date, t.date)
         THEN Append(InsertByDate_Unstable(SubSeq(sorted, 1, Len(sorted) - 1), t),
                     sorted[Len(sorted)])
         ELSE Append(sorted, t)

\* transactions.sort((a, b) => new Date(a.date).getTime() - new Date(b.date).getTime()),
\* a stable sort: t goes behind every element that is not later than it
RECURSIVE InsertByDate(_, _)
InsertByDate(sorted, t) ==
    IF sorted = << >> THEN <<t>>
    ELSE IF DateBefore(t.date, sorted[Len(sorted)].date)
         THEN Append(InsertByDate(SubSeq(sorted, 1, Len(sorted) - 1), t),
                     sorted[Len(sorted)])
         ELSE Append(sorted, t)

\* SortByDate that leaves the list in the order of the request
SortByDate_InputOrder(txs) == txs

RECURSIVE SortByDate(_)
SortByDate(txs) ==
    IF txs = << >> THEN << >>
    ELSE InsertByDate(SortByDate(SubSeq(txs, 1, Len(txs) - 1)), txs[Len(txs)])

\* the condition of the outer while loop
LoopCondition ==
    \/ currentYear < end.y
    \/ currentYear = end.y /\ currentMonth <= end.m - 1

\* the transaction the inner loop looks at
transaction == sortedTransactions[transactionIndex + 1]

\* transactionDate.getFullYear() === currentYearNum &&
\* transactionDate.getMonth() === currentMonthNum
InCurrentMonth(t) ==
    /\ LocalDate(t.date, tz).y = currentYear
    /\ LocalDate(t.date, tz).m - 1 = currentMonth

\* transactionDate > currentDate: UTC midnight of the transaction's day
\* against local midnight of the first day of the cursor month
AfterCurrentDate(t) ==
    LET local == LocalDate(t.date, tz)
        first == Date(currentYear, currentMonth + 1, 1)
    IN  \/ DateBefore(first, local)
        \/ local = first /\ tz % 24 > 0

\* withdrawalAmount without the clamp to the balance
withdrawalAmount_Unclamped(amount, balance) == amount

\* Math.min(transaction.amount, Math.max(0, currentAmount))
withdrawalAmount(amount, balance) == Min(amount, Max(0, balance))

\* currentAmount * (1 + annualReturn / 12)
Grow(balance, rate) == balance + MulDivNearest(balance, rate, 120000)

\* totalContributions > 0 ? ((totalGains / totalContributions) * 100) : 0,
\* rounded to two decimals
Roi(gains, contributions) ==
    IF contributions > 0 THEN RoundPercent(gains, contributions) ELSE 0

\* NetRoi dividing by netInvestment itself
NetRoi_Signed(netGains, netInvestment) ==
    IF netInvestment > 0 THEN RoundPercent(netGains, netInvestment)
    ELSE IF netInvestment < 0 THEN -RoundPercent(netGains, -netInvestment)
    ELSE 0

\* netInvestment !== 0 ? ((netGains / Math.abs(netInvestment)) * 100) : 0,
\* rounded to two decimals
NetRoi(netGains, netInvestment) ==
    IF netInvestment # 0 THEN RoundPercent(netGains, Abs(netInvestment)) ELSE 0

\* MonthlyDataPoint pushed before the month's growth is applied
MonthlyDataPoint_BeforeGrowth(balance, rate) ==
    [month         |-> totalMonths + 1,
     year          |-> currentYear,
     monthOfYear   |-> currentMonth + 1,
     date          |-> FirstOfMonthToISODate(currentYear, currentMonth, tz),
     amount        |-> Round2(currentAmount),
     contributions |-> Round2(totalContributions),
     netInvestment |-> Round2(totalDeposits - totalWithdrawals),
     gains         |-> Round2(currentAmount - totalContributions),
     annualReturn  |-> rate]

MonthlyDataPoint(balance, rate) ==
    [month         |-> totalMonths + 1,
     year          |-> currentYear,
     monthOfYear   |-> currentMonth + 1,
     date          |-> FirstOfMonthToISODate(currentYear, currentMonth, tz),
     amount        |-> Round2(balance),
     contributions |-> Round2(totalContributions),
     netInvestment |-> Round2(totalDeposits - totalWithdrawals),
     gains         |-> Round2(balance - totalContributions),
     annualReturn  |-> rate]

\* YearlyDataPoint with the gains taken against the net investment
YearlyDataPoint_NetGains(balance, rate) ==
    [year          |-> currentYear,
     date          |-> FirstOfMonthToISODate(currentYear, currentMonth, tz),
     amount        |-> Round2(balance),
     contributions |-> Round2(totalContributions),
     netInvestment |-> Round2(totalDeposits - totalWithdrawals),
     gains         |-> Round2(balance - (totalDeposits - totalWithdrawals)),
     roi           |-> Roi(balance - totalContributions, totalContributions),
     annualReturn  |-> rate]

YearlyDataPoint(balance, rate) ==
    [year          |-> currentYear,
     date          |-> FirstOfMonthToISODate(currentYear, currentMonth, tz),
     amount        |-> Round2(balance),
     contributions |-> Round2(totalContributions),
     netInvestment |-> Round2(totalDeposits - totalWithdrawals),
     gains         |-> Round2(balance - totalContributions),
     roi           |-> Roi(balance - totalContributions, totalContributions),
     annualReturn  |-> rate]

RECURSIVE SumReturns(_, _)
SumReturns(index, years) ==
    IF years = {} THEN 0
    ELSE LET y == CHOOSE x \in years : TRUE
         IN  annualReturn(index, y) + SumReturns(index, years \ {y})

\* (avgReturn * 100).toFixed(2) over the table years inside the window
averageAnnualReturn ==
    LET years == {y \in RowYears(selectedReturns(marketIndex)) :
                     y >= start.y /\ y <= end.y}
    IN  IF years = {} THEN NaN
        ELSE Num(MulDivNearest(SumReturns(marketIndex, years), 1, Cardinality(years)))

\* CalculationSummary with netGains taken against the deposits alone
CalculationSummary_GrossNetGains ==
    LET finalAmount   == currentAmount
        netInvestment == totalDeposits - totalWithdrawals
        totalGains    == finalAmount - totalContributions
        netGains      == finalAmount - totalDeposits
    IN  [finalAmount         |-> Round2(finalAmount),
         totalContributions  |-> Round2(totalContributions),
         totalGains          |-> Round2(totalGains),
         totalROI            |-> Roi(totalGains, totalContributions),
         totalDeposits       |-> Round2(totalDeposits),
         totalWithdrawals    |-> Round2(totalWithdrawals),
         netInvestment       |-> Round2(netInvestment),
         netGains            |-> Round2(netGains),
         netROI              |-> NetRoi(netGains, netInvestment),
         averageAnnualReturn |-> averageAnnualReturn,
         investmentPeriod    |-> [startDate   |-> NoonToISODate(start, tz),
                                  endDate     |-> NoonToISODate(end, tz),
                                  totalMonths |-> totalMonths]]

CalculationSummary ==
    LET finalAmount   == currentAmount
        netInvestment == totalDeposits - totalWithdrawals
        totalGains    == finalAmount - totalContributions
        netGains      == finalAmount - netInvestment
    IN  [finalAmount         |-> Round2(finalAmount),
         totalContributions  |-> Round2(totalContributions),
         totalGains          |-> Round2(totalGains),
         totalROI            |-> Roi(totalGains, totalContributions),
         totalDeposits       |-> Round2(totalDeposits),
         totalWithdrawals    |-> Round2(totalWithdrawals),
         netInvestment       |-> Round2(netInvestment),
         netGains            |-> Round2(netGains),
         netROI              |-> NetRoi(netGains, netInvestment),
         averageAnnualReturn |-> averageAnnualReturn,
         investmentPeriod    |-> [startDate   |-> NoonToISODate(start, tz),
                                  endDate     |-> NoonToISODate(end, tz),
                                  totalMonths |-> totalMonths]]

CalculationResult ==
    [summary     |-> CalculationSummary,
     monthlyData |-> monthlyData,
     yearlyData  |-> yearlyData]

----------------------------------------------------------------------------
(* generateRealisticMarketData *)

\* indexReturns[currentYear] || defaultReturn, with
\* defaultReturn = MARKET_INDICES[index].averageReturn; for a name inherited
\* from Object.prototype both are undefined
marketAnnualReturn(index, year) ==
    IF index \in DOMAIN historicalReturns
    THEN (IF RowLookup(historicalReturns[index], year) # 0
          THEN Num(RowLookup(historicalReturns[index], year))
          ELSE Num(MARKET_INDICES[index].averageReturn))
    ELSE NaN

\* MARKET_INDICES[index].name
indexName(index) ==
    IF index \in DOMAIN MARKET_INDICES THEN MARKET_INDICES[index].name
    ELSE IF index = "constructor" THEN "Object"
    ELSE IF index = "__proto__" THEN "undefined"
    ELSE index

HistoricalDataPoint(index, year) ==
    [year             |-> year,
     return           |-> marketAnnualReturn(index, year),
     returnPercentage |-> marketAnnualReturn(index, year),
     date             |-> Date(year, 12, 31),
     index            |-> index,
     indexName        |-> indexName(index)]

RECURSIVE SumSeries(_)
SumSeries(data) ==
    IF data = << >> THEN 0
    ELSE data[1].return.value + SumSeries(Tail(data))

\* seriesAverage with a sum that leaves out the first entry
seriesAverage_SkipsFirst(data) ==
    IF data = << >> \/ \E i \in DOMAIN data : data[i].return.nan
    THEN [nan |-> TRUE, num |-> 0, den |-> 0]
    ELSE [nan |-> FALSE, num |-> SumSeries(Tail(data)), den |-> Len(data)]

\* data.reduce((sum, item) => sum + item.return, 0) / data.length, as the
\* fraction num / den
seriesAverage(data) ==
    IF data = << >> \/ \E i \in DOMAIN data : data[i].return.nan
    THEN [nan |-> TRUE, num |-> 0, den |-> 0]
    ELSE [nan |-> FALSE, num |-> SumSeries(data), den |-> Len(data)]

generateRealisticMarketData(index, startDate, endDate) ==
    LET startUTC  == IF startDate = NoDate THEN Date(FirstTableYear, 1, 1) ELSE startDate
        endUTC    == IF endDate = NoDate THEN today ELSE endDate
        firstYear == LocalDate(startUTC, tz).y
        endYear   == IF endDate = NoDate THEN today.y ELSE LocalDate(endUTC, tz).y
        data      == [i \in 1..Max(0, endYear - firstYear + 1) |->
                         HistoricalDataPoint(index, firstYear + i - 1)]
    IN  [index          |-> index,
         indexName      |-> indexName(index),
         averageReturn  |-> seriesAverage(data),
         historicalData |-> data,
         period         |-> [startDate |-> startUTC, endDate |-> endUTC]]

----------------------------------------------------------------------------
(* Requests and responses *)

NoBody == [kind |-> "none"]
NoResponse == [status |-> 0, error |-> "", body |-> NoBody]
ErrorResponse(status, message) == [status |-> status, error |-> message, body |-> NoBody]
JsonResponse(body) == [status |-> 200, error |-> "", body |-> body]

\* transactionsShape is the kind of value of the body's `transactions`:
\* "array" (the list in the field transactions), "undefined" (absent),
\* "null", or "string" (a non-empty string, which is not a list)
NoRequest ==
    [endpoint |-> "none", initialAmount |-> [has |-> FALSE, v |-> 0],
     transactions |-> << >>, transactionsShape |-> "undefined",
     startDate |-> NoDate, endDate |-> NoDate, marketIndex |-> ""]

TzOffsets == {-5, 0, 9}

InitialAmounts == {[has |-> FALSE, v |-> 0], [has |-> TRUE, v |-> 1000000]}

TransactionDates == {Date(2024, 10, 20), Date(2024, 12, 1), Date(2024, 12, 15)}
TransactionAmounts == {40, 3000000}
\* form is the kind of value of an entry of `transactions` and of its amount:
\* "object" (an object whose amount is the number in the field amount),
\* "null" (the entry is null), "noAmount" (an object without amount),
\* "textAmount" (the amount is a string without leading number, "abc"),
\* "mixedAmount" (the amount is a string with a leading number, "12abc", the
\* number being the field amount), "stringAmount" (the amount is a numeric
\* string, "0" or "-50", the number being the field amount).  A missing date
\* is NoDate, a missing type "".
Transactions ==
    [date : TransactionDates, amount : TransactionAmounts,
     type : {"deposit", "withdrawal"}, form : {"object"}]
TransactionLists == UNION {[1..n -> Transactions] : n \in 0..MaxTx}

StartDates == {NoDate, Date(2024, 11, 15), Date(2024, 12, 1)}
EndDates == {NoDate, Date(2024, 11, 10), Date(2024, 12, 31)}
IndexNames == {"", "nasdaq", "constructor", "bogus"}

CalculationRequests ==
    [endpoint : {"calculate"}, initialAmount : InitialAmounts,
     transactions : TransactionLists, transactionsShape : {"array"},
     startDate : StartDates, endDate : EndDates, marketIndex : IndexNames]

\* calculation requests whose `transactions` is not a list
ShapeRequests ==
    [endpoint : {"calculate"}, initialAmount : InitialAmounts,
     transactions : {<< >>}, transactionsShape : {"undefined", "null", "string"},
     startDate : StartDates, endDate : EndDates, marketIndex : IndexNames]

MarketDataRequests ==
    [endpoint : {"market-data"}, initialAmount : {[has |-> FALSE, v |-> 0]},
     transactions : {<< >>}, transactionsShape : {"undefined"},
     startDate : (StartDates \ {Date(2024, 12, 1)})
                    \cup {Date(2024, 1, 1), Date(2025, 6, 1)},
     endDate : EndDates \ {Date(2024, 11, 10)}, marketIndex : IndexNames]

Tx(date, amount, type) ==
    [date |-> date, amount |-> amount, type |-> type, form |-> "object"]

\* entries that validation is to drop, one of each kind
MalformedEntries ==
    {[date |-> NoDate, amount |-> 0, type |-> "", form |-> "null"],
     Tx(NoDate, 3000000, "deposit"),
     [date |-> Date(2024, 12, 1), amount |-> 0, type |-> "deposit",
      form |-> "noAmount"],
     Tx(Date(2024, 12, 1), 3000000, ""),
     [date |-> Date(2024, 12, 1), amount |-> 0, type |-> "deposit",
      form |-> "textAmount"],
     [date |-> Date(2024, 12, 1), amount |-> 120000, type |-> "deposit",
      form |-> "mixedAmount"],
     Tx(Date(2024, 12, 1), 3000000, "transfer")}

\* requests with one or two entries, malformed ones among them
MalformedRequests ==
    [endpoint : {"calculate"}, initialAmount : InitialAmounts,
     transactions :
        UNION {[1..n -> MalformedEntries
                          \cup {Tx(Date(2024, 12, 15), 3000000, "deposit")}]
               : n \in 1..2},
     transactionsShape : {"array"}, startDate : {Date(2024, 11, 15)},
     endDate : {Date(2024, 12, 31)}, marketIndex : {"nasdaq"}]

\* a malformed entry: null, without date, amount or type, with an amount
\* that is not a number, or of a type other than deposit and withdrawal
IsMalformed(t) ==
    \/ t.form # "object"
    \/ t.date = NoDate
    \/ t.type \notin {"deposit", "withdrawal"}

RemoveAt(s, i) == [j \in 1..(Len(s) - 1) |-> IF j < i THEN s[j] ELSE s[j + 1]]

\* the request r with one of its malformed entries removed
Reductions(r) ==
    {[r EXCEPT !.transactions = RemoveAt(r.transactions, i)] :
        i \in {j \in DOMAIN r.transactions : IsMalformed(r.transactions[j])}}

\* principal 0, one deposit of 10000 on 2020-01-15, the year 2020, sp500
ScenarioA ==
    [endpoint |-> "calculate", initialAmount |-> [has |-> TRUE, v |-> 0],
     transactions |-> <<Tx(Date(2020, 1, 15), 100000000, "deposit")>>,
     transactionsShape |-> "array", startDate |-> Date(2020, 1, 1),
     endDate |-> Date(2020, 12, 31), marketIndex |-> "sp500"]

\* requests for indices of the API that the table of the engine does not list
UnlistedIndexRequests ==
    [endpoint : {"calculate"}, initialAmount : {[has |-> TRUE, v |-> 1000000]},
     transactions : {<< >>}, transactionsShape : {"array"},
     startDate : {Date(2024, 11, 15)}, endDate : {NoDate, Date(2024, 12, 31)},
     marketIndex : {"dow", "ftse100"}]

\* requests with an amount that is zero or negative
NonPositiveAmountRequests ==
    [endpoint : {"calculate"}, initialAmount : {[has |-> TRUE, v |-> 1000000]},
     transactions :
        {<<Tx(Date(2024, 12, 15), -500000, "deposit")>>,
         <<Tx(Date(2024, 12, 15), -500000, "withdrawal")>>,
         <<Tx(Date(2024, 12, 15), 0, "deposit")>>,
         <<[date |-> Date(2024, 12, 15), amount |-> 0, type |-> "deposit",
            form |-> "stringAmount"]>>,
         <<[date |-> Date(2024, 12, 15), amount |-> -500000, type |-> "deposit",
            form |-> "stringAmount"]>>},
     transactionsShape : {"array"}, startDate : {Date(2024, 11, 15)},
     endDate : {Date(2024, 12, 31)}, marketIndex : {"nasdaq"}]

\* three transactions of different dates
DatedTransactions ==
    {Tx(Date(2024, 11, 20), 3000000, "deposit"),
     Tx(Date(2024, 12, 1), 3000000, "withdrawal"),
     Tx(Date(2024, 12, 15), 40, "deposit")}

\* the lists of two or three of them, in every order
DatedLists ==
    UNION {{s \in [1..n -> DatedTransactions] :
               \A i, j \in 1..n : i # j => s[i] # s[j]} : n \in 2..3}

OrderRequests ==
    [endpoint : {"calculate"}, initialAmount : InitialAmounts,
     transactions : DatedLists, transactionsShape : {"array"},
     startDate : {Date(2024, 11, 15)}, endDate : {Date(2024, 12, 31)},
     marketIndex : {"nasdaq"}]

\* the lists with the entries of s in another order, or the same
Orderings(s) ==
    {[i \in DOMAIN s |-> s[f[i]]] :
        f \in {g \in [DOMAIN s -> DOMAIN s] :
                  \A i, j \in DOMAIN s : i # j => g[i] # g[j]}}

\* the request r with its transactions in another order
Reorderings(r) ==
    {[r EXCEPT !.transactions = s] : s \in Orderings(r.transactions)}

\* a handful of requests that are repeated and interleaved in SpecCalls
ProbeRequests ==
    {r \in CalculationRequests :
        /\ r.initialAmount.has
        /\ r.startDate = Date(2024, 11, 15)
        /\ r.endDate = Date(2024, 12, 31)
        /\ r.marketIndex \in {"", "nasdaq"}
        /\ r.transactions \in
             {<< >>,
              <<Tx(Date(2024, 12, 1), 3000000, "withdrawal")>>,
              <<Tx(Date(2024, 12, 15), 3000000, "deposit"),
                Tx(Date(2024, 12, 1), 40, "withdrawal")>>}}
    \cup {r \in MarketDataRequests :
            r.startDate # NoDate /\ r.endDate # NoDate /\ r.marketIndex = ""}

\* market-data requests repeated while the date changes
CacheRequests ==
    {r \in MarketDataRequests :
        /\ r.marketIndex = "nasdaq"
        /\ r.startDate \in {NoDate, Date(2024, 11, 15)}}

Requests == IF workload = "probe" THEN ProbeRequests
            ELSE IF workload = "cache" THEN CacheRequests
            ELSE IF workload = "order"
            THEN (IF req = NoRequest THEN OrderRequests ELSE Reorderings(req))
            ELSE IF workload = "malformed"
            THEN (IF req = NoRequest THEN MalformedRequests ELSE Reductions(req))
            ELSE CalculationRequests \cup ShapeRequests \cup MarketDataRequests
                 \cup {ScenarioA} \cup UnlistedIndexRequests
                 \cup NonPositiveAmountRequests

----------------------------------------------------------------------------
(* POST /api/calculate-compound *)

\* the filter of validTransactions
IsValidTransaction(t) ==
    /\ t.form # "null"
    /\ t.date # NoDate
    /\ t.form # "noAmount" /\ (t.form = "object" => t.amount # 0)
    /\ t.type # ""
    /\ t.type \in {"deposit", "withdrawal"}
    /\ t.form # "textAmount"

\* {...t, amount: parseFloat(t.amount.toString())}: the leading number of a
\* string amount
ParseTransaction(t) == [t EXCEPT !.form = "object"]

validTransactions(r) ==
    LET kept == SelectSeq(r.transactions, IsValidTransaction)
    IN  [i \in DOMAIN kept |-> ParseTransaction(kept[i])]

\* !transactions || transactions.length === 0, after the default [] of an
\* absent `transactions`
NoTransactions(r) ==
    \/ r.transactionsShape \in {"undefined", "null"}
    \/ r.transactionsShape = "array" /\ Len(r.transactions) = 0

\* transactions.filter is a function: it is not for null and for a string,
\* and the call throws a TypeError
HasFilter(r) == r.transactionsShape \in {"array", "undefined"}

\* marketIndex || 'sp500' and req.params.index || 'sp500'
IndexOf(r) == IF r.marketIndex = "" THEN "sp500" ELSE r.marketIndex

Reject(r, status, message) ==
    /\ pc' = "responded"
    /\ req' = r
    /\ response' = ErrorResponse(status, message)
    /\ UNCHANGED <<clientVars, tz, today, workload, cache, log>>
    /\ UNCHANGED walkVars

\* EnterCalculation with totalWithdrawals kept across calls
EnterCalculation_StaleTotals(principal, transactions, startDate, endDate, index) ==
    /\ start' = LocalDate(startDate, tz)
    /\ end' = LocalDate(endDate, tz)
    /\ marketIndex' = index
    /\ monthlyData' = << >>
    /\ yearlyData' = << >>
    /\ sortedTransactions' = SortByDate(transactions)
    /\ currentAmount' = principal
    /\ currentYear' = LocalDate(startDate, tz).y
    /\ currentMonth' = LocalDate(startDate, tz).m - 1
    /\ totalMonths' = 0
    /\ totalContributions' = principal
    /\ totalDeposits' = principal
    /\ totalWithdrawals' = totalWithdrawals
    /\ transactionIndex' = 0

\* the declarations of calculateCompoundInterestWithDates up to its loop
EnterCalculation(principal, transactions, startDate, endDate, index) ==
    /\ start' = LocalDate(startDate, tz)
    /\ end' = LocalDate(endDate, tz)
    /\ marketIndex' = index
    /\ monthlyData' = << >>
    /\ yearlyData' = << >>
    /\ sortedTransactions' = SortByDate(transactions)
    /\ currentAmount' = principal
    /\ currentYear' = LocalDate(startDate, tz).y
    /\ currentMonth' = LocalDate(startDate, tz).m - 1
    /\ totalMonths' = 0
    /\ totalContributions' = principal
    /\ totalDeposits' = principal
    /\ totalWithdrawals' = 0
    /\ transactionIndex' = 0

CalculateRequest(r) ==
    /\ pc = "idle"
    /\ r.endpoint = "calculate"
    /\ IF ~r.initialAmount.has /\ NoTransactions(r)
       THEN Reject(r, 400, "Either initial amount or transactions are required")
       ELSE IF r.startDate = NoDate
       THEN Reject(r, 400, "Start date is required")
       ELSE IF ~HasMarketIndex(IndexOf(r))
       THEN Reject(r, 400, "Invalid market index")
       ELSE IF ~HasFilter(r)
       THEN Reject(r, 500, "Calculation failed")
       ELSE /\ EnterCalculation(
                 IF r.initialAmount.has THEN r.initialAmount.v ELSE 0,
                 validTransactions(r),
                 r.startDate,
                 IF r.endDate = NoDate THEN today ELSE r.endDate,
                 IndexOf(r))
            /\ pc' = "walk"
            /\ req' = r
            /\ response' = NoResponse
            /\ UNCHANGED <<clientVars, tz, today, workload, cache, log>>

\* TransactionEffect recording the requested amount of a withdrawal
TransactionEffect_RecordsRequested(t, balance, contributions, deposits, withdrawals) ==
    IF t.type = "deposit"
    THEN [currentAmount      |-> balance + t.amount,
          totalContributions |-> contributions + t.amount,
          totalDeposits      |-> deposits + t.amount,
          totalWithdrawals   |-> withdrawals]
    ELSE IF t.type = "withdrawal"
    THEN [currentAmount      |-> balance - withdrawalAmount(t.amount, balance),
          totalContributions |-> contributions,
          totalDeposits      |-> deposits,
          totalWithdrawals   |-> withdrawals + t.amount]
    ELSE [currentAmount      |-> balance,
          totalContributions |-> contributions,
          totalDeposits      |-> deposits,
          totalWithdrawals   |-> withdrawals]

\* TransactionEffect taking a withdrawal off the contributions
TransactionEffect_NetContributions(t, balance, contributions, deposits, withdrawals) ==
    IF t.type = "deposit"
    THEN [currentAmount      |-> balance + t.amount,
          totalContributions |-> contributions + t.amount,
          totalDeposits      |-> deposits + t.amount,
          totalWithdrawals   |-> withdrawals]
    ELSE IF t.type = "withdrawal"
    THEN [currentAmount      |-> balance - withdrawalAmount(t.amount, balance),
          totalContributions |-> contributions - withdrawalAmount(t.amount, balance),
          totalDeposits      |-> deposits,
          totalWithdrawals   |-> withdrawals + withdrawalAmount(t.amount, balance)]
    ELSE [currentAmount      |-> balance,
          totalContributions |-> contributions,
          totalDeposits      |-> deposits,
          totalWithdrawals   |-> withdrawals]

\* the branches on transaction.type of the inner loop: the running figures
\* after a transaction of the cursor month
TransactionEffect(t, balance, contributions, deposits, withdrawals) ==
    IF t.type = "deposit"
    THEN [currentAmount      |-> balance + t.amount,
          totalContributions |-> contributions + t.amount,
          totalDeposits      |-> deposits + t.amount,
          totalWithdrawals   |-> withdrawals]
    ELSE IF t.type = "withdrawal"
    THEN [currentAmount      |-> balance - withdrawalAmount(t.amount, balance),
          totalContributions |-> contributions,
          totalDeposits      |-> deposits,
          totalWithdrawals   |-> withdrawals + withdrawalAmount(t.amount, balance)]
    ELSE [currentAmount      |-> balance,
          totalContributions |-> contributions,
          totalDeposits      |-> deposits,
          totalWithdrawals   |-> withdrawals]

\* one iteration of the inner loop that does not break: the transaction is
\* applied when it lies in the cursor month and passed over otherwise
ApplyTransaction ==
    /\ pc = "walk"
    /\ LoopCondition
    /\ transactionIndex < Len(sortedTransactions)
    /\ InCurrentMonth(transaction) \/ ~AfterCurrentDate(transaction)
    /\ IF InCurrentMonth(transaction)
       THEN LET after == TransactionEffect(transaction, currentAmount,
                             totalContributions, totalDeposits, totalWithdrawals)
            IN  /\ currentAmount' = after.currentAmount
                /\ totalContributions' = after.totalContributions
                /\ totalDeposits' = after.totalDeposits
                /\ totalWithdrawals' = after.totalWithdrawals
       ELSE UNCHANGED <<currentAmount, totalContributions, totalDeposits,
                        totalWithdrawals>>
    /\ transactionIndex' = transactionIndex + 1
    /\ UNCHANGED <<clientVars, tz, today, workload, cache, pc, req, response, log, start, end,
                   marketIndex, sortedTransactions, currentYear, currentMonth,
                   totalMonths, monthlyData, yearlyData>>

\* the rest of an iteration of the outer loop, once the inner loop has
\* ended: growth, the monthly and yearly snapshots, the cursor
CompoundMonth ==
    /\ pc = "walk"
    /\ LoopCondition
    /\ IF transactionIndex < Len(sortedTransactions)
       THEN ~InCurrentMonth(transaction) /\ AfterCurrentDate(transaction)
       ELSE TRUE
    /\ LET rate    == annualReturn(marketIndex, currentYear)
           balance == Grow(currentAmount, rate)
       IN  /\ currentAmount' = balance
           /\ totalMonths' = totalMonths + 1
           /\ monthlyData' = Append(monthlyData, MonthlyDataPoint(balance, rate))
           /\ yearlyData' = IF currentMonth = 11
                            THEN Append(yearlyData, YearlyDataPoint(balance, rate))
                            ELSE yearlyData
    /\ IF currentMonth + 1 > 11
       THEN currentMonth' = 0 /\ currentYear' = currentYear + 1
       ELSE currentMonth' = currentMonth + 1 /\ UNCHANGED currentYear
    /\ UNCHANGED <<clientVars, tz, today, workload, cache, pc, req, response, log, start, end,
                   marketIndex, sortedTransactions, totalContributions,
                   totalDeposits, totalWithdrawals, transactionIndex>>

\* the code after the loop, and res.json(result)
Finish ==
    /\ pc = "walk"
    /\ ~LoopCondition
    /\ response' = JsonResponse(CalculationResult)
    /\ pc' = "responded"
    /\ UNCHANGED <<clientVars, tz, today, workload, cache, req, log>>
    /\ UNCHANGED walkVars

----------------------------------------------------------------------------
(* GET /api/market-data/:index? *)

CacheKey(r) == <<IndexOf(r), r.startDate, r.endDate>>

MarketDataRequest(r) ==
    /\ pc = "idle"
    /\ r.endpoint = "market-data"
    /\ req' = r
    /\ pc' = "responded"
    /\ IF ~HasMarketIndex(IndexOf(r))
       THEN /\ response' = ErrorResponse(400, "Invalid market index")
            /\ UNCHANGED cache
       ELSE IF CacheKey(r) \in DOMAIN cache
       THEN /\ response' = JsonResponse(cache[CacheKey(r)].v)
            /\ UNCHANGED cache
       ELSE /\ response' = JsonResponse(
                 generateRealisticMarketData(IndexOf(r), r.startDate, r.endDate))
            /\ cache' = (CacheKey(r) :>
                 [v |-> generateRealisticMarketData(IndexOf(r), r.startDate,
                                                    r.endDate),
                  t |-> today])
                 @@ cache
    /\ UNCHANGED <<clientVars, tz, today, workload, log>>
    /\ UNCHANGED walkVars

----------------------------------------------------------------------------
(* The server *)

\* the response has been sent and the server takes the next request
NextRequest ==
    /\ pc = "responded"
    /\ Len(log) + 1 < MaxCalls
    /\ log' = Append(log, <<req, response>>)
    /\ pc' = "idle"
    /\ UNCHANGED <<clientVars, tz, today, workload, cache, req, response>>
    /\ UNCHANGED walkVars

\* the day the server starts
FirstDay(load) == IF load = "cache" THEN Date(2025, 12, 31) ELSE Date(2026, 1, 5)

RECURSIVE DaysBetween(_, _)
DaysBetween(from, to) ==
    IF from = to THEN 0 ELSE 1 + DaysBetween(NextDay(from), to)

\* midnight passes between two requests; an entry of the cache lives for
\* stdTTL = 3600 seconds, so it outlives at most one midnight
Tick ==
    /\ pc = "idle"
    /\ DaysBetween(FirstDay(workload), today) < MaxDays
    /\ today' = NextDay(today)
    /\ cache' = [k \in {j \in DOMAIN cache : cache[j].t = today} |-> cache[k]]
    /\ UNCHANGED <<clientVars, tz, workload, pc, req, response, log>>
    /\ UNCHANGED walkVars

\* an entry of the cache reaches its time to live and is deleted
Expire ==
    /\ pc = "idle"
    /\ \E k \in DOMAIN cache :
          cache' = [j \in DOMAIN cache \ {k} |-> cache[j]]
    /\ UNCHANGED <<clientVars, tz, today, workload, pc, req, response, log>>
    /\ UNCHANGED walkVars

(* The client: the App component of src/client/src/App.tsx.  Its state is  *)
(* the state of the component after the initial loading; a handler and the *)
(* render it causes, with the unified calculation effect, are one step.    *)
(* The response of POST /api/calculate-compound is a function of the body  *)
(* posted, so a result is identified by the body it answers.               *)

\* calculationResult === null
NullResult == [isNull |-> TRUE, request |-> NoRequest]

\* response.data of the request with this body
ResultOf(body) == [isNull |-> FALSE, request |-> body]

\* the transactions the user enters in the form or reads from a file
NewTransactions ==
    IF workload = "fill"
    THEN {[date |-> Date(2024, 3, 15), amount |-> 1000000, type |-> "deposit"]}
    ELSE {[date |-> Date(2024, 3, 15), amount |-> 1000000, type |-> "deposit"],
          [date |-> Date(2024, 1, 15), amount |-> 1000000, type |-> "withdrawal"]}

\* the lists of a file the user imports
ImportedLists == {<<t>> : t \in NewTransactions}

MarketIndexIds == {"sp500", "nasdaq"}

\* the transactions added or imported in one behaviour
AddsAllowed == IF workload = "fill" THEN MaxFill ELSE MaxAdds

\* in SpecFill the user removes, deletes, clears, imports or changes the
\* primary index once: while no transaction has left the list and the
\* primary index is the initial one
FirstEdit ==
    workload = "fill" =>
        Len(appTransactions) = nextId - 1 /\ primaryIndex = "sp500"

\* in SpecFill the user adds outside select mode and changes the primary
\* index to another one
WhenFilling(condition) == workload = "fill" => condition

\* the requests in flight at a time
InFlightAllowed == IF workload = "fill" THEN 1 ELSE MaxInFlight

\* `${t.date}-${t.amount}-${t.type}`, the fields of a transaction the cache key
\* is made of and the engine reads
TransactionKey(t) == [date |-> t.date, amount |-> t.amount, type |-> t.type]

\* the earliest date of a non-empty list
EarliestDate(txs) ==
    txs[CHOOSE i \in DOMAIN txs :
            \A j \in DOMAIN txs : ~DateBefore(txs[j].date, txs[i].date)].date

\* transactionDateRange.startDate, null for the empty list
transactionDateRange(txs) == IF txs = << >> THEN NoDate ELSE EarliestDate(txs)

\* the body calculateCompound posts: {...formData, marketIndex: primaryIndex},
\* formData as the effect and importTransactions build it
CalculationBody(txs, index) ==
    [endpoint |-> "calculate-compound",
     initialAmount |-> [has |-> TRUE, v |-> 0],
     transactions |-> [i \in DOMAIN txs |-> TransactionKey(txs[i])],
     transactionsShape |-> "array",
     startDate |-> transactionDateRange(txs), endDate |-> today,
     marketIndex |-> index]

\* the sorted, joined transaction strings: how many times each string occurs
transactionHash(txs) ==
    [k \in {txs[i] : i \in DOMAIN txs} |->
        Cardinality({i \in DOMAIN txs : txs[i] = k})]

generateCalculationCacheKey(body) ==
    [initialAmount |-> body.initialAmount.v,
     transactionHash |-> transactionHash(body.transactions),
     startDate |-> body.startDate, endDate |-> body.endDate,
     marketIndex |-> body.marketIndex]

\* calculationCacheRef.current.get(key): the positions of the key in the Map
CacheGet(c, key) == {i \in DOMAIN c : c[i].key = key}

\* calculationCacheRef.current.set(key, result): a key the Map holds keeps its
\* place, a new key goes behind the others
CacheSet(c, key, result) ==
    IF CacheGet(c, key) # {}
    THEN [i \in DOMAIN c |-> IF c[i].key = key
                             THEN [key |-> key, result |-> result] ELSE c[i]]
    ELSE Append(c, [key |-> key, result |-> result])

\* LimitCache that deletes the key inserted last
LimitCache_DropsNewest(c) ==
    IF Len(c) > CacheLimit THEN SubSeq(c, 1, Len(c) - 1) ELSE c

\* if (size > 50) delete keys()[0]
LimitCache(c) == IF Len(c) > CacheLimit THEN Tail(c) ELSE c

\* calculateCompound up to its first await, from the state s of
\* calculationResult, pending and loading, with the cache c: a cached
\* result is displayed, otherwise the request is posted
calculateCompound(txs, index, c, s) ==
    LET body == CalculationBody(txs, index)
        hit  == CacheGet(c, generateCalculationCacheKey(body))
    IN  IF hit # {}
        THEN [calculationResult |-> c[CHOOSE i \in hit : TRUE].result,
              pending |-> s.pending, loading |-> s.loading]
        ELSE [calculationResult |-> s.calculationResult,
              pending |-> s.pending \cup {body}, loading |-> TRUE]

\* the unified calculation effect, run by the render after transactions or
\* primaryIndex changed
CalculationEffect(txs, index, c, s) ==
    IF txs = << >>
    THEN [calculationResult |-> NullResult, pending |-> s.pending,
          loading |-> s.loading]
    ELSE calculateCompound(txs, index, c, s)

CalculationState ==
    [calculationResult |-> calculationResult, pending |-> pending,
     loading |-> loading]

\* the state s becomes the state of the component; the user waits while
\* MaxInFlight requests are in flight
SetCalculationState(s) ==
    /\ Cardinality(s.pending) <= InFlightAllowed
    /\ calculationResult' = s.calculationResult
    /\ pending' = s.pending
    /\ loading' = s.loading

\* the ids of a list
Ids(txs) == {txs[i].id : i \in DOMAIN txs}

\* the memo sortedTransactions: the transactions of the type the filter
\* shows (the sort order of the view is not modelled)
visibleTransactions ==
    SelectSeq(appTransactions,
              LAMBDA t : transactionTypeFilter = "all"
                         \/ t.type = transactionTypeFilter)

WithId(t, id) == [id |-> id, date |-> t.date, amount |-> t.amount, type |-> t.type]

\* Date.now().toString(), the id of a transaction of the form
FormId(now) == [now |-> now, random |-> FALSE]

\* Date.now().toString() + Math.random().toString(36).substr(2, 9), the id of
\* a transaction of a file
FileId(now) == [now |-> now, random |-> TRUE]

\* addTransaction of the form, then handleTransactionsChange: the Add button
\* is disabled while loading
AddTransaction ==
    /\ UNCHANGED serverVars
    /\ ~loading
    /\ WhenFilling(~isSelectMode)
    /\ nextId <= AddsAllowed
    /\ \E t \in NewTransactions :
          LET updatedTransactions ==
                  SortByDate(Append(appTransactions, WithId(t, FormId(nextId))))
          IN  /\ appTransactions' = updatedTransactions
              /\ SetCalculationState(
                     CalculationEffect(updatedTransactions, primaryIndex,
                                       calculationCache, CalculationState))
    /\ nextId' = nextId + 1
    /\ UNCHANGED <<primaryIndex, selectedTransactionIds, isSelectMode,
                   transactionTypeFilter, calculationCache>>

removeTransaction(index) ==
    LET kept == RemoveAt(appTransactions, index)
    IN  /\ appTransactions' = kept
        /\ calculationCache' = << >>
        /\ SetCalculationState(
               CalculationEffect(kept, primaryIndex, << >>, CalculationState))
        /\ UNCHANGED <<primaryIndex, selectedTransactionIds, isSelectMode,
                       transactionTypeFilter, nextId>>

\* the remove button of a row: shown outside select mode, for a transaction
\* of the view, with the index of the transaction in transactions
RemoveTransaction ==
    /\ UNCHANGED serverVars
    /\ FirstEdit
    /\ ~isSelectMode
    /\ \E index \in DOMAIN appTransactions :
          /\ appTransactions[index].id \in Ids(visibleTransactions)
          /\ workload = "fill" => index = 1
          /\ removeTransaction(index)

\* toggleSelectMode that keeps the selection
toggleSelectMode_KeepsSelection ==
    /\ isSelectMode' = ~isSelectMode
    /\ UNCHANGED selectedTransactionIds

toggleSelectMode ==
    /\ isSelectMode' = ~isSelectMode
    /\ selectedTransactionIds' = {}

\* the toolbar of the list is shown while there are transactions
ToggleSelectMode ==
    /\ UNCHANGED serverVars
    /\ FirstEdit
    /\ appTransactions # << >>
    /\ toggleSelectMode
    /\ UNCHANGED <<appTransactions, primaryIndex, calculationResult,
                   transactionTypeFilter, calculationCache, pending, loading,
                   nextId>>

toggleTransactionSelection(id) ==
    selectedTransactionIds' =
        IF id \in selectedTransactionIds
        THEN selectedTransactionIds \ {id}
        ELSE selectedTransactionIds \cup {id}

\* the checkbox of a row: shown in select mode, for a transaction of the view
ToggleTransactionSelection ==
    /\ UNCHANGED serverVars
    /\ isSelectMode
    /\ workload # "fill"
    /\ \E id \in Ids(visibleTransactions) : toggleTransactionSelection(id)
    /\ UNCHANGED <<appTransactions, primaryIndex, calculationResult,
                   isSelectMode, transactionTypeFilter, calculationCache,
                   pending, loading, nextId>>

SelectAllTransactions ==
    /\ UNCHANGED serverVars
    /\ isSelectMode
    /\ selectedTransactionIds' = Ids(visibleTransactions)
    /\ UNCHANGED <<appTransactions, primaryIndex, calculationResult,
                   isSelectMode, transactionTypeFilter, calculationCache,
                   pending, loading, nextId>>

DeselectAllTransactions ==
    /\ UNCHANGED serverVars
    /\ isSelectMode
    /\ selectedTransactionIds' = {}
    /\ UNCHANGED <<appTransactions, primaryIndex, calculationResult,
                   isSelectMode, transactionTypeFilter, calculationCache,
                   pending, loading, nextId>>

\* the button is shown in select mode and disabled while nothing is selected
DeleteSelectedTransactions ==
    /\ UNCHANGED serverVars
    /\ FirstEdit
    /\ isSelectMode
    /\ selectedTransactionIds # {}
    /\ LET kept == SelectSeq(appTransactions,
                             LAMBDA t : t.id \notin selectedTransactionIds)
       IN  /\ appTransactions' = kept
           /\ SetCalculationState(
                  CalculationEffect(kept, primaryIndex, << >>, CalculationState))
    /\ selectedTransactionIds' = {}
    /\ isSelectMode' = FALSE
    /\ calculationCache' = << >>
    /\ UNCHANGED <<primaryIndex, transactionTypeFilter, nextId>>

\* the button is shown while there are transactions
ClearAllTransactions ==
    /\ UNCHANGED serverVars
    /\ FirstEdit
    /\ appTransactions # << >>
    /\ appTransactions' = << >>
    /\ selectedTransactionIds' = {}
    /\ isSelectMode' = FALSE
    /\ calculationCache' = << >>
    /\ SetCalculationState(
           CalculationEffect(<< >>, primaryIndex, << >>,
               [calculationResult |-> NullResult, pending |-> pending,
                loading |-> loading]))
    /\ UNCHANGED <<primaryIndex, transactionTypeFilter, nextId>>

\* the transactions of a file with new ids
RECURSIVE Imported(_, _)
Imported(list, id) ==
    IF list = << >> THEN << >>
    ELSE <<WithId(Head(list), FileId(id))>> \o Imported(Tail(list), id + 1)

\* importTransactions, whose calculateCompound is the one of the first
\* render (the callback has no dependencies), with primaryIndex "sp500";
\* the render then runs the effect with the current primaryIndex
ImportTransactions ==
    \E list \in ImportedLists :
        LET importedTransactions == Imported(list, nextId)
        IN  /\ UNCHANGED serverVars
            /\ FirstEdit
            /\ nextId + Len(list) - 1 <= AddsAllowed
            /\ appTransactions' = importedTransactions
            /\ selectedTransactionIds' = {}
            /\ isSelectMode' = FALSE
            /\ calculationCache' = << >>
            /\ SetCalculationState(
                   CalculationEffect(importedTransactions, primaryIndex, << >>,
                       calculateCompound(importedTransactions, "sp500", << >>,
                                         CalculationState)))
            /\ nextId' = nextId + Len(list)
            /\ UNCHANGED <<primaryIndex, transactionTypeFilter>>

\* toggleMarketIndex and setPrimaryMarketIndex; the effect runs when
\* primaryIndex changed
SetPrimaryMarketIndex ==
    /\ UNCHANGED serverVars
    /\ FirstEdit
    /\ \E indexId \in MarketIndexIds :
          /\ WhenFilling(indexId # primaryIndex)
          /\ primaryIndex' = indexId
          /\ IF indexId = primaryIndex
             THEN UNCHANGED <<calculationResult, pending, loading>>
             ELSE SetCalculationState(
                      CalculationEffect(appTransactions, indexId, << >>,
                                        CalculationState))
    /\ calculationCache' = << >>
    /\ UNCHANGED <<appTransactions, selectedTransactionIds, isSelectMode,
                   transactionTypeFilter, nextId>>

\* the filter button of the toolbar goes from a filter to the next one
nextFilter ==
    IF transactionTypeFilter = "all" THEN "deposit"
    ELSE IF transactionTypeFilter = "deposit" THEN "withdrawal" ELSE "all"

\* the filter button, and the clear-filter button shown while a filter is set
SetTransactionTypeFilter ==
    /\ UNCHANGED serverVars
    /\ appTransactions # << >>
    /\ \/ transactionTypeFilter' = nextFilter
       \/ /\ transactionTypeFilter # "all"
          /\ transactionTypeFilter' = "all"
    /\ UNCHANGED <<appTransactions, primaryIndex, calculationResult,
                   selectedTransactionIds, isSelectMode, calculationCache,
                   pending, loading, nextId>>

\* the response of a request in flight arrives, whichever was posted first:
\* calculateCompound from its last await on
Respond ==
    /\ UNCHANGED serverVars
    /\ \E body \in pending :
          /\ pending' = pending \ {body}
          /\ calculationCache' =
                 LimitCache(CacheSet(calculationCache,
                                     generateCalculationCacheKey(body),
                                     ResultOf(body)))
          /\ calculationResult' = ResultOf(body)
    /\ loading' = FALSE
    /\ UNCHANGED <<appTransactions, primaryIndex, selectedTransactionIds,
                   isSelectMode, transactionTypeFilter, nextId>>

\* the component after the initial loading, no transactions stored
ClientInit ==
    /\ appTransactions = << >>
    /\ primaryIndex = "sp500"
    /\ calculationResult = NullResult
    /\ selectedTransactionIds = {}
    /\ isSelectMode = FALSE
    /\ transactionTypeFilter = "all"
    /\ calculationCache = << >>
    /\ pending = {}
    /\ loading = FALSE
    /\ nextId = 1

----------------------------------------------------------------------------
InitWith(load) ==
    /\ tz \in TzOffsets
    /\ today = FirstDay(load)
    /\ workload = load
    /\ cache = << >>
    /\ pc = "idle"
    /\ req = NoRequest
    /\ response = NoResponse
    /\ start = NoDate
    /\ end = NoDate
    /\ marketIndex = ""
    /\ sortedTransactions = << >>
    /\ currentAmount = 0
    /\ currentYear = 0
    /\ currentMonth = 0
    /\ totalMonths = 0
    /\ totalContributions = 0
    /\ totalDeposits = 0
    /\ totalWithdrawals = 0
    /\ transactionIndex = 0
    /\ monthlyData = << >>
    /\ yearlyData = << >>
    /\ log = << >>
    /\ ClientInit

Init == InitWith("all")

\* a client posts a calculation request
Calculate == pc = "idle" /\ \E r \in Requests : CalculateRequest(r)

\* a client gets a market-data series
MarketData == pc = "idle" /\ \E r \in Requests : MarketDataRequest(r)

Next ==
    \/ Calculate
    \/ MarketData
    \/ ApplyTransaction
    \/ CompoundMonth
    \/ Finish

\* one request per behaviour, over the whole set of requests
Spec == Init /\ [][Next]_vars

\* a client sends a request with malformed entries and then the same request
\* with a malformed entry removed
InitValidation == InitWith("malformed")

NextValidation ==
    \/ Calculate
    \/ ApplyTransaction
    \/ CompoundMonth
    \/ Finish
    \/ NextRequest

SpecValidation == InitValidation /\ [][NextValidation]_vars

\* market-data requests one after the other while time passes
InitCache == InitWith("cache")

NextCache ==
    \/ MarketData
    \/ NextRequest
    \/ Tick
    \/ Expire

SpecCache == InitCache /\ [][NextCache]_vars

\* a client sends a request and then the same request with its transactions
\* in another order
InitOrder == InitWith("order")

NextOrder ==
    \/ Calculate
    \/ ApplyTransaction
    \/ CompoundMonth
    \/ Finish
    \/ NextRequest

SpecOrder == InitOrder /\ [][NextOrder]_vars

InitCalls == InitWith("probe")

NextCalls ==
    \/ Calculate
    \/ MarketData
    \/ ApplyTransaction
    \/ CompoundMonth
    \/ Finish
    \/ NextRequest

\* MaxCalls requests one after the other, over the probe requests
SpecCalls == InitCalls /\ [][NextCalls]_vars

\* the user works with the transaction list while the responses of the
\* calculation requests arrive in any order
InitClient == InitWith("client") /\ tz = 0

NextClient ==
    \/ AddTransaction
    \/ RemoveTransaction
    \/ ToggleSelectMode
    \/ ToggleTransactionSelection
    \/ SelectAllTransactions
    \/ DeselectAllTransactions
    \/ DeleteSelectedTransactions
    \/ ClearAllTransactions
    \/ ImportTransactions
    \/ SetPrimaryMarketIndex
    \/ SetTransactionTypeFilter
    \/ Respond

SpecClient == InitClient /\ [][NextClient]_vars

\* the user adds one deposit after the other, so that the calculation cache
\* fills, and now and then removes the first row, deletes or clears the
\* list, imports a file or changes the primary index
InitFill == InitWith("fill") /\ tz = 0

NextFill ==
    \/ AddTransaction
    \/ RemoveTransaction
    \/ ToggleSelectMode
    \/ SelectAllTransactions
    \/ DeleteSelectedTransactions
    \/ ClearAllTransactions
    \/ ImportTransactions
    \/ SetPrimaryMarketIndex
    \/ Respond

SpecFill == InitFill /\ [][NextFill]_vars

----------------------------------------------------------------------------
(* Properties *)

Principal(r) == IF r.initialAmount.has THEN r.initialAmount.v ELSE 0

\* the inputs of the data model: principal >= 0 and every amount > 0
PositiveInputs(r) ==
    /\ Principal(r) >= 0
    /\ \A i \in DOMAIN r.transactions : r.transactions[i].amount > 0

\* the end date the handler passes to the engine
EffectiveEnd(r) == IF r.endDate = NoDate THEN today ELSE r.endDate

\* a calculation request has been answered with a result
CalcResult ==
    pc = "responded" /\ req.endpoint = "calculate" /\ response.status = 200

\* a calculation request that passes the checks made before the engine runs
PassesEarlierChecks(r) ==
    /\ r.initialAmount.has \/ ~NoTransactions(r)
    /\ r.startDate # NoDate

\* the step of the walk that applies a withdrawal of the cursor month
WithdrawalStep ==
    /\ pc = "walk"
    /\ transactionIndex < Len(sortedTransactions)
    /\ transactionIndex' = transactionIndex + 1
    /\ InCurrentMonth(transaction)
    /\ transaction.type = "withdrawal"

\* the transaction the inner loop consumed last lies in the cursor month and
\* is a withdrawal
JustWithdrew ==
    /\ pc = "walk"
    /\ transactionIndex > 0
    /\ InCurrentMonth(sortedTransactions[transactionIndex])
    /\ sortedTransactions[transactionIndex].type = "withdrawal"

\* number of calendar months from the month of date s through that of date e
MonthsSpanned(s, e) == 12 * (e.y - s.y) + (e.m - s.m) + 1

\* C1: a calculation whose endDate precedes its startDate is answered with
\* an error and without a result (no summary, no snapshots).
C1_InvalidRangeRejected ==
    (/\ pc = "responded"
     /\ req.endpoint = "calculate"
     /\ PassesEarlierChecks(req)
     /\ DateBefore(EffectiveEnd(req), req.startDate))
    => (response.status # 200 /\ response.body = NoBody)

\* C2: for a range whose start month is not after its end month, monthlyData
\* is the run of consecutive calendar months from the month written in
\* startDate through the month written in endDate: its length is
\* 12*(endYear-startYear)+(endMonth-startMonth)+1, entry i has month counter
\* i, December is followed by January, and totalMonths is that length.
C2_MonthsOfTheRange ==
    (CalcResult /\ MonthsSpanned(req.startDate, EffectiveEnd(req)) >= 1)
    => LET data == response.body.monthlyData
       IN  /\ Len(data) = MonthsSpanned(req.startDate, EffectiveEnd(req))
           /\ response.body.summary.investmentPeriod.totalMonths = Len(data)
           /\ data[1].year = req.startDate.y
           /\ data[1].monthOfYear = req.startDate.m
           /\ \A i \in DOMAIN data :
                /\ data[i].month = i
                /\ i > 1 =>
                     IF data[i - 1].monthOfYear = 12
                     THEN data[i].monthOfYear = 1 /\ data[i].year = data[i - 1].year + 1
                     ELSE /\ data[i].monthOfYear = data[i - 1].monthOfYear + 1
                          /\ data[i].year = data[i - 1].year

IsDecember(point) == point.monthOfYear = 12

\* C3: in every result yearlyData has exactly one entry per December entry
\* of monthlyData, in the same order and with strictly increasing years, and
\* each carries the year, amount, contributions, netInvestment and gains of
\* that December entry.
C3_YearlyIsDecemberSubsequence ==
    CalcResult
    => LET decembers == SelectSeq(response.body.monthlyData, IsDecember)
           yearly    == response.body.yearlyData
       IN  /\ Len(yearly) = Len(decembers)
           /\ \A i \in DOMAIN yearly :
                /\ yearly[i].year = decembers[i].year
                /\ yearly[i].amount = decembers[i].amount
                /\ yearly[i].contributions = decembers[i].contributions
                /\ yearly[i].netInvestment = decembers[i].netInvestment
                /\ yearly[i].gains = decembers[i].gains
                /\ i > 1 => yearly[i - 1].year < yearly[i].year

\* a result over two Decembers and other months, with a withdrawal recorded
C3_Witness ==
    /\ CalcResult
    /\ Len(response.body.yearlyData) = 2
    /\ Len(response.body.monthlyData) > 12
    /\ response.body.summary.totalWithdrawals > 0

\* C4: with principal >= 0 and positive amounts the balance is never
\* negative, neither after a transaction nor in a monthly snapshot; no row
\* of the engine's tables and no default return has a monthly growth factor
\* 1 + r/12 below zero.
C4_BalanceNeverNegative ==
    /\ \A index \in DOMAIN allHistoricalReturns :
         \A i \in DOMAIN allHistoricalReturns[index] :
            120000 + allHistoricalReturns[index][i] > 0
    /\ \A index \in DOMAIN MARKET_INDICES :
         120000 + MARKET_INDICES[index].averageReturn > 0
    /\ (pc \in {"walk", "responded"} /\ req.endpoint = "calculate"
                                     /\ PositiveInputs(req))
       => /\ currentAmount >= 0
          /\ \A i \in DOMAIN monthlyData : monthlyData[i].amount >= 0

\* a snapshot taken after a withdrawal larger than the balance emptied it
C4_Witness ==
    /\ pc = "walk"
    /\ PositiveInputs(req)
    /\ Len(monthlyData) >= 1
    /\ monthlyData[Len(monthlyData)].amount = 0
    /\ totalWithdrawals > 0
    /\ \E i \in DOMAIN sortedTransactions :
         /\ i <= transactionIndex
         /\ sortedTransactions[i].type = "withdrawal"
         /\ sortedTransactions[i].amount > totalWithdrawals

\* C5: a withdrawal takes min(amount, max(0, currentAmount)) from the
\* balance and adds the same value to totalWithdrawals; when the requested
\* amount exceeds the balance, the balance becomes 0 and totalWithdrawals
\* grows by the balance before the withdrawal.
C5_WithdrawalClamped ==
    [][WithdrawalStep =>
         /\ currentAmount - currentAmount' = totalWithdrawals' - totalWithdrawals
         /\ (transaction.amount > currentAmount /\ currentAmount >= 0)
              => /\ currentAmount' = 0
                 /\ totalWithdrawals' = totalWithdrawals + currentAmount
         /\ (transaction.amount <= currentAmount /\ transaction.amount >= 0)
              => /\ currentAmount' = currentAmount - transaction.amount
                 /\ totalWithdrawals' = totalWithdrawals + transaction.amount
      ]_vars

\* right after a withdrawal that asked for more than the positive balance
C5_Witness ==
    /\ JustWithdrew
    /\ currentAmount = 0
    /\ totalWithdrawals > 0
    /\ sortedTransactions[transactionIndex].amount > totalWithdrawals

C7_SummaryMatchesLastMonth ==
    (CalcResult /\ Len(response.body.monthlyData) >= 1)
    => LET data == response.body.monthlyData
       IN  /\ response.body.summary.finalAmount = data[Len(data)].amount
           /\ response.body.summary.totalContributions
                = data[Len(data)].contributions

\* a result of several months whose balance grew and changed by transactions
C7_Witness ==
    /\ CalcResult
    /\ Len(response.body.monthlyData) >= 2
    /\ response.body.summary.totalDeposits > Round2(Principal(req))
    /\ response.body.summary.finalAmount
         # response.body.monthlyData[1].amount

\* C8 as stated: the reported, rounded summary fields satisfy
\* totalGains = finalAmount - totalContributions and
\* netInvestment = totalDeposits - totalWithdrawals exactly.
C8_RoundedFieldsAddUp ==
    CalcResult
    => LET s == response.body.summary
       IN  /\ s.totalGains = s.finalAmount - s.totalContributions
           /\ s.netInvestment = s.totalDeposits - s.totalWithdrawals

\* v (in cents) is the 2-decimal rounding of the unrounded x
NearestCent(v, x) == 100 * v - 50 <= x /\ x < 100 * v + 50

\* C8 amended: each of summary.totalGains and summary.netInvestment is the
\* 2-decimal rounding of the difference of the unrounded figures, and so is
\* within one cent of the difference of the reported, rounded operands.
C8_RoundedDifferences ==
    CalcResult
    => LET s == response.body.summary
       IN  /\ NearestCent(s.totalGains, currentAmount - totalContributions)
           /\ NearestCent(s.netInvestment, totalDeposits - totalWithdrawals)
           /\ Abs(s.totalGains - (s.finalAmount - s.totalContributions)) <= 1
           /\ Abs(s.netInvestment - (s.totalDeposits - s.totalWithdrawals)) <= 1

\* a result whose reported gains are one cent off the reported difference
C8_Witness ==
    /\ CalcResult
    /\ Len(response.body.monthlyData) >= 1
    /\ Abs(response.body.summary.totalGains
           - (response.body.summary.finalAmount
              - response.body.summary.totalContributions)) = 1

\* C9: a calculation request that was answered before gets the same
\* response again, whatever requests were handled before or in between.
C9_Deterministic ==
    (pc = "responded" /\ req.endpoint = "calculate")
    => \A i \in DOMAIN log : log[i][1] = req => log[i][2] = response

\* the first request is answered again after a different calculation that
\* recorded a withdrawal
C9_Witness ==
    /\ CalcResult
    /\ Len(log) = 2
    /\ log[1][1] = req
    /\ log[2][1] # req
    /\ log[2][1].endpoint = "calculate"
    /\ log[2][2].body.summary.totalWithdrawals > 0
    /\ Len(response.body.monthlyData) >= 2

\* C10: a request whose market index is not a key of MARKET_INDICES is
\* answered by both endpoints with the invalid-index error: no walk is
\* started, no series is generated and nothing is put into the cache.
C10_UnknownIndexRejected ==
    /\ pc = "walk" => IndexOf(req) \in DOMAIN MARKET_INDICES
    /\ (/\ pc = "responded"
        /\ IndexOf(req) \notin DOMAIN MARKET_INDICES
        /\ req.endpoint = "calculate" => PassesEarlierChecks(req))
       => /\ response = ErrorResponse(400, "Invalid market index")
          /\ DOMAIN cache = {}
          /\ monthlyData = << >>

\* C11: a calculation request with an initial amount, a start date and a
\* recognized index whose `transactions` is absent, null, not a list or an
\* empty list is answered with a result, the one of an empty list.
C11_MalformedListIsEmptyList ==
    (/\ pc = "responded"
     /\ req.endpoint = "calculate"
     /\ req.initialAmount.has
     /\ req.startDate # NoDate
     /\ IndexOf(req) \in DOMAIN MARKET_INDICES
     /\ req.transactionsShape # "array" \/ req.transactions = << >>)
    => /\ response.status = 200
       /\ response.body # NoBody
       /\ sortedTransactions = << >>

\* C12: a request that differs from the previous request only by the removal
\* of one malformed transaction entry gets the response the previous request
\* got.
C12_MalformedEntryDropped ==
    (/\ pc = "responded"
     /\ log # << >>
     /\ req \in Reductions(log[Len(log)][1]))
    => response = log[Len(log)][2]

\* C13: summary.averageAnnualReturn is the mean, over every calendar year from
\* the start year through the end year of the walk, of the annual return the
\* walk uses for that year (table value or default), as a percentage with two
\* decimals.
C13_AverageOverEveryYear ==
    (/\ CalcResult
     /\ marketIndex \in DOMAIN MARKET_INDICES
     /\ start.y <= end.y)
    => response.body.summary.averageAnnualReturn
         = Num(MulDivNearest(SumReturns(marketIndex, start.y..end.y), 1,
                             end.y - start.y + 1))

\* a market-data request has been answered with a series
MarketResult ==
    pc = "responded" /\ req.endpoint = "market-data" /\ response.status = 200

\* the start date of a market-data request, the floor when it is omitted
EffectiveStart(r) ==
    IF r.startDate = NoDate THEN Date(FirstTableYear, 1, 1) ELSE r.startDate

\* the tabulated return of the index for the year, or the default return of
\* the index when the year is not tabulated
TabulatedOrDefault(index, year) ==
    IF year \in RowYears(historicalReturns[index])
    THEN historicalReturns[index][year - (FirstTableYear - 1)]
    ELSE MARKET_INDICES[index].averageReturn

\* C14: for a recognized index and a start year that is not after the end
\* year, the series has one entry per calendar year from the start year
\* through the end year, in ascending order, each with the tabulated (or
\* default) return of the year and the date December 31 of the year.
C14_OneEntryPerYear ==
    (/\ MarketResult
     /\ IndexOf(req) \in DOMAIN MARKET_INDICES
     /\ EffectiveStart(req).y <= EffectiveEnd(req).y)
    => LET data  == response.body.historicalData
           first == EffectiveStart(req).y
           last  == EffectiveEnd(req).y
       IN  /\ Len(data) = last - first + 1
           /\ \A i \in DOMAIN data :
                 /\ data[i].year = first + i - 1
                 /\ data[i].date = Date(first + i - 1, 12, 31)
                 /\ data[i].return
                      = Num(TabulatedOrDefault(IndexOf(req), first + i - 1))

\* the sum of the returns of the first n entries of a series
RECURSIVE ReturnsUpTo(_, _)
ReturnsUpTo(data, n) ==
    IF n = 0 THEN 0 ELSE ReturnsUpTo(data, n - 1) + data[n].return.value

\* C15: in every market-data response for a recognized index, averageReturn
\* is the sum of the returns of the entries of historicalData of that
\* response divided by their number (no number when there is no entry).
C15_AverageOfOwnSeries ==
    (MarketResult /\ IndexOf(req) \in DOMAIN MARKET_INDICES)
    => LET data == response.body.historicalData
           avg  == response.body.averageReturn
       IN  IF data = << >> THEN avg.nan
           ELSE /\ ~avg.nan
                /\ avg.den = Len(data)
                /\ avg.num = ReturnsUpTo(data, Len(data))

\* a series of several years with different returns whose mean is not the
\* static average return of the index
C15_Witness ==
    /\ MarketResult
    /\ IndexOf(req) \in DOMAIN MARKET_INDICES
    /\ Len(response.body.historicalData) >= 2
    /\ response.body.historicalData[1].return
         # response.body.historicalData[2].return
    /\ response.body.averageReturn.num
         # response.body.averageReturn.den
            * MARKET_INDICES[IndexOf(req)].averageReturn

\* a balance multiplied n times by (1 + rate / 12)
RECURSIVE GrowTimes(_, _, _)
GrowTimes(balance, rate, n) ==
    IF n = 0 THEN balance ELSE GrowTimes(Grow(balance, rate), rate, n - 1)

\* C16: the result of Scenario A has 12 monthly snapshots, one yearly
\* snapshot, of 2020, totalContributions = totalDeposits = 10000,
\* totalWithdrawals = 0 and finalAmount = 10000 multiplied 12 times by
\* (1 + r2020 / 12), rounded to 2 decimals.
C16_ScenarioA ==
    (CalcResult /\ req = ScenarioA)
    => /\ Len(response.body.monthlyData) = 12
       /\ Len(response.body.yearlyData) = 1
       /\ response.body.yearlyData[1].year = 2020
       /\ response.body.summary.totalContributions = 1000000
       /\ response.body.summary.totalDeposits = 1000000
       /\ response.body.summary.totalWithdrawals = 0
       /\ response.body.summary.finalAmount
            = Round2(GrowTimes(100000000,
                               RowLookup(allHistoricalReturns["sp500"], 2020), 12))

\* C17: every market-data response for a recognized index, served from the
\* cache or not, has the index, indexName, averageReturn, historicalData and
\* period that a fresh computation for the request gives at that moment.
C17_CacheNeverAffectsOutput ==
    (MarketResult /\ IndexOf(req) \in DOMAIN MARKET_INDICES)
    => response.body
         = generateRealisticMarketData(IndexOf(req), req.startDate, req.endDate)

\* C18: for every index key of the API, the annual return the engine applies
\* in a simulated year is the return the market-data responder reports for
\* that index and year.
C18_EngineUsesResponderTable ==
    (CalcResult /\ marketIndex \in DOMAIN MARKET_INDICES)
    => \A i \in DOMAIN response.body.monthlyData :
          Num(response.body.monthlyData[i].annualReturn)
            = marketAnnualReturn(marketIndex, response.body.monthlyData[i].year)

\* the walk consumes the transaction it looks at
ConsumeStep ==
    /\ pc = "walk"
    /\ transactionIndex < Len(sortedTransactions)
    /\ transactionIndex' = transactionIndex + 1

\* C19: a transaction is consumed only when its month, as the engine reads
\* its date, is not after the cursor month, and whenever it is consumed, in
\* its own month or later, its deposit or clamped withdrawal is applied to
\* currentAmount and the running totals.
C19_NoTransactionSkipped ==
    [][ConsumeStep =>
         /\ LocalDate(transaction.date, tz).y * 12 + LocalDate(transaction.date, tz).m
              <= currentYear * 12 + currentMonth + 1
         /\ transaction.type = "deposit"
              => /\ currentAmount' = currentAmount + transaction.amount
                 /\ totalDeposits' = totalDeposits + transaction.amount
                 /\ totalContributions' = totalContributions + transaction.amount
         /\ transaction.type = "withdrawal"
              => /\ currentAmount'
                      = currentAmount - Min(transaction.amount, Max(0, currentAmount))
                 /\ totalWithdrawals'
                      = totalWithdrawals + Min(transaction.amount, Max(0, currentAmount))
      ]_vars

\* C20: when the requested index is a key of the API without a row in the
\* table of the engine, every simulated year uses the sp500 row or, for a
\* year the row does not list, the default return of sp500.
C20_FallbackIsSp500 ==
    (/\ CalcResult
     /\ marketIndex \in DOMAIN MARKET_INDICES
     /\ marketIndex \notin DOMAIN allHistoricalReturns)
    => \A i \in DOMAIN response.body.monthlyData :
          LET year == response.body.monthlyData[i].year
          IN  response.body.monthlyData[i].annualReturn
                = IF year \in RowYears(allHistoricalReturns["sp500"])
                  THEN allHistoricalReturns["sp500"][year - (FirstTableYear - 1)]
                  ELSE MARKET_INDICES["sp500"].averageReturn

\* the first and the last monthly snapshot are of the months written in the
\* start date and in the end date of the request
WindowAsWritten ==
    (/\ CalcResult
     /\ req.endDate # NoDate
     /\ response.body.monthlyData # << >>)
    => LET data == response.body.monthlyData
       IN  /\ data[1].year = req.startDate.y
           /\ data[1].monthOfYear = req.startDate.m
           /\ data[Len(data)].year = req.endDate.y
           /\ data[Len(data)].monthOfYear = req.endDate.m

\* C21: for every timezone offset of the server, the walk starts in the
\* month written in startDate, ends in the month written in endDate, and
\* applies a transaction in the month written in its date.
C21_WindowOfTheWrittenDates ==
    [][/\ (pc = "walk" /\ pc' = "responded") => WindowAsWritten'
       /\ (ConsumeStep /\ InCurrentMonth(transaction))
            => /\ transaction.date.y = currentYear
               /\ transaction.date.m = currentMonth + 1
      ]_vars

\* the entries of a list that carry the date d, in the order of the list
OfDate(txs, d) == SelectSeq(txs, LAMBDA t : t.date = d)

\* C22: the walk goes through the valid transactions in ascending date
\* order, those of one date in their order in the input list; a withdrawal
\* listed before a deposit of the same day is clamped before the deposit is
\* added, so the balance right after the deposit is at least the deposit.
C22_StableDateOrder ==
    (pc = "walk")
    => /\ Len(sortedTransactions) = Len(validTransactions(req))
       /\ \A i, j \in DOMAIN sortedTransactions :
             i < j => ~DateBefore(sortedTransactions[j].date,
                                  sortedTransactions[i].date)
       /\ \A d \in {req.transactions[i].date : i \in DOMAIN req.transactions} :
             OfDate(sortedTransactions, d) = OfDate(validTransactions(req), d)
       /\ (/\ PositiveInputs(req)
           /\ transactionIndex >= 2
           /\ InCurrentMonth(sortedTransactions[transactionIndex])
           /\ req.transactions = sortedTransactions
           /\ sortedTransactions[transactionIndex - 1].date
                = sortedTransactions[transactionIndex].date
           /\ sortedTransactions[transactionIndex - 1].type = "withdrawal"
           /\ sortedTransactions[transactionIndex].type = "deposit")
          => currentAmount >= sortedTransactions[transactionIndex].amount

\* a withdrawal of more than the balance listed before a deposit of the same
\* day: both have been applied, the withdrawal took the balance only
C22_Witness ==
    /\ pc = "walk"
    /\ Len(sortedTransactions) = 2
    /\ req.transactions = sortedTransactions
    /\ transactionIndex = 2
    /\ InCurrentMonth(sortedTransactions[2])
    /\ sortedTransactions[1].date = sortedTransactions[2].date
    /\ sortedTransactions[1].type = "withdrawal"
    /\ sortedTransactions[2].type = "deposit"
    /\ totalWithdrawals > 0
    /\ totalWithdrawals < sortedTransactions[1].amount
    /\ currentAmount = sortedTransactions[2].amount

\* C23: every transaction the handler passes to the engine has amount > 0.
C23_EngineAmountsPositive ==
    (pc = "walk")
    => \A i \in DOMAIN sortedTransactions : sortedTransactions[i].amount > 0

\* the walk ends and the result is sent
FinishStep == pc = "walk" /\ pc' = "responded"

\* the walk pushes a yearly snapshot
YearlyStep == pc = "walk" /\ Len(yearlyData') = Len(yearlyData) + 1

\* C24: the roi of a yearly snapshot and summary.totalROI are 0 whenever
\* totalContributions <= 0; summary.netROI is 0 whenever netInvestment is 0
\* and otherwise netGains / |netInvestment| * 100 rounded to two decimals,
\* with the sign of netGains.
C24_NoDivisionByZero ==
    [][/\ (YearlyStep /\ totalContributions <= 0)
            => yearlyData'[Len(yearlyData')].roi = 0
       /\ (FinishStep /\ totalContributions <= 0)
            => response'.body.summary.totalROI = 0
       /\ (FinishStep /\ totalDeposits = totalWithdrawals)
            => response'.body.summary.netROI = 0
       /\ (FinishStep /\ totalDeposits # totalWithdrawals)
            => LET netInvestment == totalDeposits - totalWithdrawals
                   netGains      == currentAmount - netInvestment
                   netROI        == response'.body.summary.netROI
               IN  /\ netROI = RoundPercent(netGains, Abs(netInvestment))
                   /\ netGains > 0 => netROI >= 0
                   /\ netGains < 0 => netROI <= 0
      ]_vars

\* a result whose withdrawals exceed its deposits, with a positive netROI
C24_Witness ==
    /\ CalcResult
    /\ totalDeposits < totalWithdrawals
    /\ response.body.summary.netROI > 0
    /\ response.body.summary.totalROI < 0

\* the calendar month written in a date, counted from year 0
MonthOf(dt) == dt.y * 12 + dt.m

\* the date of transaction t is written in a month of the requested window
InWindow(t) ==
    /\ MonthOf(req.startDate) <= MonthOf(t.date)
    /\ MonthOf(t.date) <= MonthOf(EffectiveEnd(req))

\* the walk pushes a monthly snapshot, after the growth of the month
MonthlyStep == pc = "walk" /\ Len(monthlyData') = Len(monthlyData) + 1

\* what a step of the walk does with the transactions of the window
AppliedOnceInOwnMonth ==
    /\ (ConsumeStep /\ InWindow(transaction))
         => /\ MonthOf(transaction.date) = currentYear * 12 + currentMonth + 1
            /\ transaction.type = "deposit"
                 => currentAmount' = currentAmount + transaction.amount
            /\ transaction.type = "withdrawal"
                 => currentAmount' = currentAmount
                      - Min(transaction.amount, Max(0, currentAmount))
    /\ ConsumeStep
         => MonthOf(transaction.date) <= MonthOf(EffectiveEnd(req))
    /\ MonthlyStep
         => \A i \in DOMAIN sortedTransactions :
               (MonthOf(sortedTransactions[i].date)
                  = currentYear * 12 + currentMonth + 1)
               => i <= transactionIndex
    /\ FinishStep
         => \A i \in DOMAIN sortedTransactions :
               InWindow(sortedTransactions[i]) => i <= transactionIndex

\* C25: a transaction dated in a month of the window is consumed once, in
\* the iteration of the month written in its date, with its effect on the
\* balance and before the growth of that month; a transaction dated after
\* the end month is never consumed.
C25_AppliedOnceInOwnMonth == [][AppliedOnceInOwnMonth]_vars

\* what a step of the walk keeps between contributions and deposits
ContributionsAreDeposits ==
    /\ (pc = "walk" \/ pc' = "walk") => totalContributions' = totalDeposits'
    /\ MonthlyStep
         => LET point == monthlyData'[Len(monthlyData')]
            IN  /\ point.contributions = Round2(totalContributions)
                /\ point.netInvestment
                     = Round2(totalContributions - totalWithdrawals)
    /\ YearlyStep
         => LET point == yearlyData'[Len(yearlyData')]
            IN  /\ point.contributions = Round2(totalContributions)
                /\ point.netInvestment
                     = Round2(totalContributions - totalWithdrawals)
    /\ FinishStep
         => /\ response'.body.summary.totalGains
                 = Round2(currentAmount - totalContributions)
            /\ response'.body.summary.netGains
                 = Round2((currentAmount - totalContributions) + totalWithdrawals)

\* C26: at every point of the walk totalContributions = totalDeposits; every
\* snapshot has netInvestment = contributions - withdrawals so far before
\* rounding, and in the summary netGains = totalGains + totalWithdrawals
\* before rounding.
C26_ContributionsEqualDeposits == [][ContributionsAreDeposits]_vars

\* a result after deposits and withdrawals, whose two gains differ
C26_Witness ==
    /\ CalcResult
    /\ totalWithdrawals > 0
    /\ totalDeposits > Principal(req)
    /\ totalContributions = totalDeposits
    /\ response.body.summary.netGains # response.body.summary.totalGains

\* the dates of a list are pairwise distinct
DistinctDates(txs) ==
    \A i, j \in DOMAIN txs : i # j => txs[i].date # txs[j].date

\* C27: a request whose transactions have pairwise distinct dates and are
\* those of the previous request in another order gets the response of the
\* previous request: the same summary, monthlyData and yearlyData.
C27_OrderIndependent ==
    (/\ pc = "responded"
     /\ log # << >>
     /\ req \in Reorderings(log[Len(log)][1])
     /\ DistinctDates(req.transactions))
    => response = log[Len(log)][2]

\* three transactions sent in two different orders, the withdrawal and the
\* deposits applied
C27_Witness ==
    /\ CalcResult
    /\ log # << >>
    /\ req \in Reorderings(log[Len(log)][1])
    /\ req.transactions # log[Len(log)][1].transactions
    /\ Len(req.transactions) = 3
    /\ DistinctDates(req.transactions)
    /\ totalWithdrawals > 0
    /\ totalDeposits > Principal(req)
    /\ response = log[Len(log)][2]

----------------------------------------------------------------------------
(* The client *)

\* what the component displays for a list and a primary index once the
\* request for them has been answered
ResultFor(txs, index) ==
    IF txs = << >> THEN NullResult ELSE ResultOf(CalculationBody(txs, index))

\* C28: once no calculation request is in flight, calculationResult is the
\* result for the current transaction list and the current primary index,
\* and it is null whenever the transaction list is empty.
C28_ResultOfCurrentList ==
    /\ pending = {} => calculationResult = ResultFor(appTransactions, primaryIndex)
    /\ appTransactions = << >> => calculationResult = NullResult

\* a transaction was removed, or some were deleted, or all were cleared
TransactionsRemoved ==
    \E id \in Ids(appTransactions) : id \notin Ids(appTransactions')

\* the transactions of a file were imported
TransactionsImported ==
    \E id \in Ids(appTransactions') : id.random /\ id \notin Ids(appTransactions)

\* the response of the request with this body arrived
Answered(body) == body \in pending /\ pending' = pending \ {body}

\* the last n elements of a sequence
LastOf(s, n) == IF Len(s) <= n THEN s ELSE SubSeq(s, Len(s) - n + 1, Len(s))

CacheBoundedAndCleared ==
    /\ Len(calculationCache') <= CacheLimit
    /\ \A body \in pending :
          (/\ Answered(body)
           /\ CacheGet(calculationCache, generateCalculationCacheKey(body)) = {})
          => calculationCache' =
                 LastOf(Append(calculationCache,
                               [key |-> generateCalculationCacheKey(body),
                                result |-> ResultOf(body)]),
                        CacheLimit)
    /\ (\/ TransactionsRemoved
        \/ TransactionsImported
        \/ primaryIndex' # primaryIndex)
       => calculationCache' = << >>

\* C29: the calculation cache of the client holds at most 50 entries: a
\* result stored under a new key goes behind the others and, when it is the
\* 51st, the entry inserted first is evicted; and the cache is empty right
\* after a transaction is removed, selected transactions are deleted, all
\* are cleared, transactions are imported, or the primary index is changed.
C29_CacheBoundedAndCleared == [][CacheBoundedAndCleared]_vars

\* the result of the 51st list has been stored and the result of the first
\* list, inserted first, is no longer in the cache
C29_Witness ==
    /\ Len(appTransactions) = CacheLimit + 1
    /\ pending = {}
    /\ Len(calculationCache) = CacheLimit
    /\ calculationCache[CacheLimit].key =
           generateCalculationCacheKey(CalculationBody(appTransactions, primaryIndex))
    /\ \A i \in DOMAIN calculationCache :
           Len(calculationCache[i].result.request.transactions) = i + 1

\* the transactions of a list whose ids are not in a set, in their order
Unselected(txs, ids) == SelectSeq(txs, LAMBDA t : t.id \notin ids)

\* the selection is made of ids of current transactions, and of none
\* outside select mode
SelectionOfCurrentIds ==
    /\ selectedTransactionIds \subseteq Ids(appTransactions)
    /\ ~isSelectMode => selectedTransactionIds = {}

\* what delete-selected leaves: every transaction whose id was selected is
\* gone, every other one is there, unchanged and in its place
SelectedDeleted ==
    /\ Ids(appTransactions') = Ids(appTransactions) \ selectedTransactionIds
    /\ Len(appTransactions') =
           Cardinality(DOMAIN appTransactions) -
           Cardinality({i \in DOMAIN appTransactions :
                           appTransactions[i].id \in selectedTransactionIds})
    /\ \A i, j \in DOMAIN appTransactions' :
           i < j => \E k, l \in DOMAIN appTransactions :
                       /\ k < l
                       /\ appTransactions'[i] = appTransactions[k]
                       /\ appTransactions'[j] = appTransactions[l]
    /\ \A i \in DOMAIN appTransactions' :
           \E k \in DOMAIN appTransactions : appTransactions'[i] = appTransactions[k]
    /\ selectedTransactionIds' = {}
    /\ ~isSelectMode'

SelectionKept ==
    /\ SelectionOfCurrentIds'
    /\ DeleteSelectedTransactions => SelectedDeleted

\* C30: after any sequence of UI actions the selected ids are ids of current
\* transactions and there are none while select mode is off; delete-selected
\* removes exactly the transactions whose ids are selected, leaves every
\* other transaction unchanged, empties the selection and turns select mode
\* off.
C30_SelectionKept == [][SelectionKept]_vars

\* select mode with one of two transactions selected, the selected one
\* hidden by the type filter
C30_Witness ==
    /\ isSelectMode
    /\ Len(appTransactions) = 2
    /\ Cardinality(selectedTransactionIds) = 1
    /\ selectedTransactionIds \subseteq Ids(appTransactions)
    /\ \E id \in selectedTransactionIds : id \notin Ids(visibleTransactions)

====
